---- MODULE Spec2Model ----
(***************************************************************************)
(* Model of myBERT/train1.py: the script that reads the label files,       *)
(* fine-tunes the BERT+BiLSTM classifier with train() and then reports on  *)
(* the test split with evaluate().  The numeric content of the network is  *)
(* opaque: parameters are represented by the number of optimizer updates   *)
(* applied to them, a loss or F1 value by a value drawn from a small set,  *)
(* and the argmax of the logits by a label drawn from a small set.         *)
(***************************************************************************)
EXTENDS Integers, Sequences, FiniteSets, TLC

\* ---- program constants ----
NumLabels == 10        \* num_labels of the classifier, len(target_names)
LabelOffset == 2       \* int(ids)-2
epochs == 4            \* train(..., epochs=4, ...)

\* ---- bounds of the exploration ----
BatchSize == 1         \* batch_size of both DataLoaders (32 in the script), scaled
MaxTrainLines == 1     \* lines of train.txt
MaxDevLines == 1       \* lines of dev.txt
MaxTestLines == 2      \* lines of test.txt

\* sampled raw labels of the lines: classes, one value below the range and one above
TrainRaw == {LabelOffset - 1, LabelOffset, LabelOffset + NumLabels}
TestRaw == {LabelOffset - 1, LabelOffset, LabelOffset + 1}
Malformed == <<>>            \* the label fields of a line without a tab
Preds == {0, 1}              \* sampled values of the argmax of the logits
LossValues == {1, 2}         \* sampled values of loss.item()
F1Values == {0, 1}           \* the two extremes of the weighted F1
Modules == {"bert", "lstm", "dropout", "classifier"}
StepOrder == <<"to_device", "zero_grad", "forward", "loss", "backward", "step", "record">>

\* ---- helpers ----
Range(s) == {s[i] : i \in 1..Len(s)}

Min(a, b) == IF a < b THEN a ELSE b

IsPrefix(s, t) == Len(s) <= Len(t) /\ SubSeq(t, 1, Len(s)) = s

\* the files convert_to_text_label can meet: up to n lines, each given by what
\* follows its text: <<raw label>>, or nothing
Lines(raw) == {<<r>> : r \in raw} \cup {Malformed}

FileContents(raw, n) == UNION {[1..k -> Lines(raw)] : k \in 0..n}

\* label.append(int(split_cnt[1])) over the lines
LabelsOf(f) == [i \in 1..Len(f) |-> f[i][1]]

\* RandomSampler: a fresh permutation of the dataset indices per iteration
Perms(n) == {f \in [1..n -> 1..n] : \A i, j \in 1..n : f[i] = f[j] => i = j}

\* len(dataloader)
NumBatches(n) == (n + BatchSize - 1) \div BatchSize

\* the k-th batch (k from 0) of an index order: the last one may be smaller
BatchAt(order, k) == SubSeq(order, k * BatchSize + 1, Min((k + 1) * BatchSize, Len(order)))

\* [int(ids)-2 for ids in labels]
Normalize(labels) == [i \in 1..Len(labels) |-> labels[i] - LabelOffset]

\* sklearn confusion_matrix(y_true, y_pred) without labels=: one row and one
\* column per label that occurs in y_true or y_pred
ConfusionMatrix(yt, yp) ==
  LET labs == Range(yt) \cup Range(yp)
  IN [c \in labs \X labs |->
        Cardinality({i \in 1..Len(yt) : yt[i] = c[1] /\ yp[i] = c[2]})]

NoMatrix == <<>>
NoRun == [y_true |-> <<>>, y_pred |-> <<>>, confusion |-> NoMatrix]
NoReport == [epoch |-> 0]

VARIABLES
  pc,             \* position of the script / of the running function
  err,            \* "none", or the exception that ended the run
  trainFile, devFile, testFile,   \* the lines of the three files, once read
  train_labels, test_labels,      \* the label lists / tensors of the script
  training,       \* module -> its .training flag
  gradEnabled,    \* torch.is_grad_enabled()
  params,         \* number of optimizer updates applied to the parameters
  grad,           \* the <<epoch, batch>> pairs whose gradient is in .grad
  evaluation,     \* the evaluation argument of train
  epoch,          \* loop variable of train
  trainOrder,     \* the permutation the train sampler drew for this epoch
  batchPos,       \* number of batches fetched in this epoch
  batchSteps,     \* steps of the body done for the current batch
  loss,           \* loss.item() of the current batch
  train_loss, train_f1,           \* the accumulators of train
  epochLog,       \* epoch, loss and f1 of the batches recorded since the epoch began
  report,         \* the line train printed in this epoch
  evaluateDefined,\* whether "def evaluate" has been executed
  caller,         \* who called evaluate: "main" or "train"
  evalLoader,     \* the dataloader argument of evaluate
  evalOrder,      \* the permutation the test sampler drew for this call
  evalPos,        \* number of batches evaluate has consumed
  y_true, y_pred, \* the lists of evaluate
  memo,           \* example index -> prediction of the frozen model in eval mode
  confusion,      \* the confusion matrix printed last
  paramsAtEntry,  \* params when evaluate was entered
  runs,           \* completed calls of evaluate(model, test_dataloader)
  prevRun         \* y_true, y_pred and matrix of the previous completed call

fileVars == <<trainFile, devFile, testFile, train_labels, test_labels>>
modelVars == <<training, gradEnabled, params, grad>>
trainVars == <<evaluation, epoch, trainOrder, batchPos, batchSteps, loss,
               train_loss, train_f1, epochLog, report>>
evalVars == <<caller, evalLoader, evalOrder, evalPos, y_true, y_pred, memo,
              confusion, paramsAtEntry, runs, prevRun>>
vars == <<pc, err, fileVars, modelVars, trainVars, evaluateDefined, evalVars>>

Init ==
  /\ pc = "read_train"
  /\ err = "none"
  /\ trainFile = <<>> /\ devFile = <<>> /\ testFile = <<>>
  /\ train_labels = <<>> /\ test_labels = <<>>
  /\ training = [m \in Modules |-> FALSE]
  /\ gradEnabled = TRUE
  /\ params = 0
  /\ grad = {}
  /\ evaluation = FALSE
  /\ epoch = 0
  /\ trainOrder = <<>>
  /\ batchPos = 0
  /\ batchSteps = <<>>
  /\ loss = 0
  /\ train_loss = 0 /\ train_f1 = 0
  /\ epochLog = <<>>
  /\ report = NoReport
  /\ evaluateDefined = FALSE
  /\ caller = "main"
  /\ evalLoader = "None"
  /\ evalOrder = <<>>
  /\ evalPos = 0
  /\ y_true = <<>> /\ y_pred = <<>>
  /\ memo = <<>>
  /\ confusion = NoMatrix
  /\ paramsAtEntry = 0
  /\ runs = 0
  /\ prevRun = NoRun

Running(p) == pc = p /\ err = "none"

\* ---- the script, lines 72-105 ----

\* convert_to_text_label("./myBERT/train.txt") and the extend of its result
ReadTrain ==
  /\ Running("read_train")
  /\ \E f \in FileContents(TrainRaw, MaxTrainLines) :
       /\ trainFile' = f
       /\ IF Malformed \in Range(f)
            THEN /\ err' = "line 69: malformed line"
                 /\ UNCHANGED <<pc, train_labels>>
            ELSE /\ train_labels' = LabelsOf(f)
                 /\ pc' = "read_dev"
                 /\ err' = err
  /\ UNCHANGED <<devFile, testFile, test_labels, modelVars, trainVars,
                 evaluateDefined, evalVars>>

\* convert_to_text_label("./myBERT/dev.txt") and the extend of its result
ReadDev ==
  /\ Running("read_dev")
  /\ \E f \in FileContents(TrainRaw, MaxDevLines) :
       /\ devFile' = f
       /\ IF Malformed \in Range(f)
            THEN /\ err' = "line 69: malformed line"
                 /\ UNCHANGED <<pc, train_labels>>
            ELSE /\ train_labels' = train_labels \o LabelsOf(f)
                 /\ pc' = "normalize_train"
                 /\ err' = err
  /\ UNCHANGED <<trainFile, testFile, test_labels, modelVars, trainVars,
                 evaluateDefined, evalVars>>

\* train_labels = [int(ids)-2 for ids in train_labels]
NormalizeTrainLabels ==
  /\ Running("normalize_train")
  /\ train_labels' = Normalize(train_labels)
  /\ pc' = "encode_train"
  /\ UNCHANGED <<err, trainFile, devFile, testFile, test_labels, modelVars,
                 trainVars, evaluateDefined, evalVars>>

\* tokenization, torch.cat (fails on an empty list), dataset, sampler, loader
EncodeTrain ==
  /\ Running("encode_train")
  /\ IF train_labels = <<>>
       THEN err' = "line 94: torch.cat of an empty list" /\ pc' = pc
       ELSE err' = err /\ pc' = "construct_model"
  /\ UNCHANGED <<fileVars, modelVars, trainVars, evaluateDefined, evalVars>>

\* BERTBiLSTM(...): nn.Module starts in training mode, but from_pretrained
\* returns the encoder in evaluation mode
ConstructModel ==
  /\ Running("construct_model")
  /\ training' = [m \in Modules |-> m # "bert"]
  /\ params' = 0
  /\ grad' = {}
  /\ pc' = "call_train"
  /\ UNCHANGED <<err, fileVars, gradEnabled, trainVars, evaluateDefined, evalVars>>

\* ---- train, lines 24-54 ----

\* model = train(model, train_dataloader, epochs=4, evaluation=...): the call,
\* the optimizer and the criterion
CallTrain ==
  /\ Running("call_train")
  /\ \E ev \in BOOLEAN : evaluation' = ev
  /\ epoch' = 0
  /\ pc' = "epoch_head"
  /\ UNCHANGED <<err, fileVars, modelVars, trainOrder, batchPos, batchSteps,
                 loss, train_loss, train_f1, epochLog, report,
                 evaluateDefined, evalVars>>

\* TrainEpochHead with the accumulators set once before the loop instead of
\* at the start of every epoch
TrainEpochHeadNoReset ==
  /\ Running("epoch_head")
  /\ IF epoch < epochs
       THEN /\ train_loss' = (IF epoch = 0 THEN 0 ELSE train_loss)
            /\ train_f1' = (IF epoch = 0 THEN 0 ELSE train_f1)
            /\ epochLog' = <<>>
            /\ training' = [m \in Modules |-> TRUE]
            /\ \E o \in Perms(Len(train_labels)) : trainOrder' = o
            /\ batchPos' = 0
            /\ batchSteps' = <<>>
            /\ report' = NoReport
            /\ pc' = "fetch"
       ELSE /\ pc' = "train_return"
            /\ UNCHANGED <<train_loss, train_f1, epochLog, training, trainOrder,
                           batchPos, batchSteps, report>>
  /\ UNCHANGED <<err, fileVars, gradEnabled, params, grad, evaluation, epoch,
                 loss, evaluateDefined, evalVars>>

\* TrainEpochHead without model.train()
TrainEpochHeadNoTrainMode ==
  /\ Running("epoch_head")
  /\ IF epoch < epochs
       THEN /\ train_loss' = 0
            /\ train_f1' = 0
            /\ epochLog' = <<>>
            /\ \E o \in Perms(Len(train_labels)) : trainOrder' = o
            /\ batchPos' = 0
            /\ batchSteps' = <<>>
            /\ report' = NoReport
            /\ pc' = "fetch"
       ELSE /\ pc' = "train_return"
            /\ UNCHANGED <<train_loss, train_f1, epochLog, trainOrder,
                           batchPos, batchSteps, report>>
  /\ UNCHANGED <<err, fileVars, modelVars, evaluation, epoch,
                 loss, evaluateDefined, evalVars>>

\* for epoch in range(epochs): reset the accumulators, model.train(), and the
\* iterator of the inner for (the sampler draws a fresh permutation)
TrainEpochHead ==
  /\ Running("epoch_head")
  /\ IF epoch < epochs
       THEN /\ train_loss' = 0
            /\ train_f1' = 0
            /\ epochLog' = <<>>
            /\ training' = [m \in Modules |-> TRUE]
            /\ \E o \in Perms(Len(train_labels)) : trainOrder' = o
            /\ batchPos' = 0
            /\ batchSteps' = <<>>
            /\ report' = NoReport
            /\ pc' = "fetch"
       ELSE /\ pc' = "train_return"
            /\ UNCHANGED <<train_loss, train_f1, epochLog, training, trainOrder,
                           batchPos, batchSteps, report>>
  /\ UNCHANGED <<err, fileVars, gradEnabled, params, grad, evaluation, epoch,
                 loss, evaluateDefined, evalVars>>

\* for batch in train_dataloader: the next batch, or the end of the epoch
TrainFetch ==
  /\ Running("fetch")
  /\ IF batchPos < NumBatches(Len(trainOrder))
       THEN /\ batchPos' = batchPos + 1
            /\ batchSteps' = <<>>
            /\ pc' = "to_device"
       ELSE /\ pc' = "epoch_end"
            /\ UNCHANGED <<batchPos, batchSteps>>
  /\ UNCHANGED <<err, fileVars, modelVars, evaluation, epoch, trainOrder, loss,
                 train_loss, train_f1, epochLog, report, evaluateDefined, evalVars>>

CurBatch == BatchAt(trainOrder, batchPos - 1)

\* a step of the batch body that touches nothing but the position
BodyStep(from, name, to) ==
  /\ Running(from)
  /\ batchSteps' = Append(batchSteps, name)
  /\ pc' = to

\* batch = tuple(t.to(device) for t in batch)
TrainToDevice ==
  /\ BodyStep("to_device", "to_device", "zero_grad")
  /\ UNCHANGED <<err, fileVars, modelVars, evaluation, epoch, trainOrder, batchPos,
                 loss, train_loss, train_f1, epochLog, report, evaluateDefined, evalVars>>

\* TrainZeroGrad with the gradients left as they are
TrainZeroGradOmitted ==
  /\ BodyStep("zero_grad", "zero_grad", "forward")
  /\ UNCHANGED <<err, fileVars, modelVars, evaluation, epoch,
                 trainOrder, batchPos, loss, train_loss, train_f1, epochLog, report,
                 evaluateDefined, evalVars>>

\* optimizer.zero_grad()
TrainZeroGrad ==
  /\ BodyStep("zero_grad", "zero_grad", "forward")
  /\ grad' = {}
  /\ UNCHANGED <<err, fileVars, training, gradEnabled, params, evaluation, epoch,
                 trainOrder, batchPos, loss, train_loss, train_f1, epochLog, report,
                 evaluateDefined, evalVars>>

\* logits = model(input_ids, attention_mask)
TrainForward ==
  /\ BodyStep("forward", "forward", "loss")
  /\ UNCHANGED <<err, fileVars, modelVars, evaluation, epoch, trainOrder, batchPos,
                 loss, train_loss, train_f1, epochLog, report, evaluateDefined, evalVars>>

\* the targets CrossEntropyLoss takes: a class index, or its ignore_index
AcceptedTarget(t) == t \in 0..(NumLabels - 1) \/ t = -100

\* loss = criterion(logits, labels): any other target is rejected
TrainLoss ==
  /\ Running("loss")
  /\ IF \A i \in 1..Len(CurBatch) : AcceptedTarget(train_labels[CurBatch[i]])
       THEN /\ \E v \in LossValues : loss' = v
            /\ batchSteps' = Append(batchSteps, "loss")
            /\ pc' = "backward"
            /\ err' = err
       ELSE /\ err' = "line 39: target out of bounds"
            /\ UNCHANGED <<pc, loss, batchSteps>>
  /\ UNCHANGED <<fileVars, modelVars, evaluation, epoch, trainOrder, batchPos,
                 train_loss, train_f1, epochLog, report, evaluateDefined, evalVars>>

\* loss.backward(): the gradient of this batch is added to .grad
TrainBackward ==
  /\ BodyStep("backward", "backward", "step")
  /\ grad' = grad \cup {<<epoch, batchPos>>}
  /\ UNCHANGED <<err, fileVars, training, gradEnabled, params, evaluation, epoch,
                 trainOrder, batchPos, loss, train_loss, train_f1, epochLog, report,
                 evaluateDefined, evalVars>>

\* TrainStep with the optimizer stepping twice
TrainStepTwice ==
  /\ BodyStep("step", "step", "record")
  /\ params' = params + 2
  /\ memo' = <<>>
  /\ UNCHANGED <<err, fileVars, training, gradEnabled, grad, evaluation, epoch,
                 trainOrder, batchPos, loss, train_loss, train_f1, epochLog, report,
                 evaluateDefined, caller, evalLoader, evalOrder, evalPos, y_true,
                 y_pred, confusion, paramsAtEntry, runs, prevRun>>

\* optimizer.step(): one update of the parameters; a new model, so the
\* predictions remembered for the old parameters are void
TrainStep ==
  /\ BodyStep("step", "step", "record")
  /\ params' = params + 1
  /\ memo' = <<>>
  /\ UNCHANGED <<err, fileVars, training, gradEnabled, grad, evaluation, epoch,
                 trainOrder, batchPos, loss, train_loss, train_f1, epochLog, report,
                 evaluateDefined, caller, evalLoader, evalOrder, evalPos, y_true,
                 y_pred, confusion, paramsAtEntry, runs, prevRun>>

\* train_loss += loss.item(); train_f1 += f1_score(...)
TrainRecord ==
  /\ BodyStep("record", "record", "fetch")
  /\ \E f \in F1Values :
       /\ train_f1' = train_f1 + f
       /\ epochLog' = Append(epochLog, [epoch |-> epoch, loss |-> loss, f1 |-> f])
  /\ train_loss' = train_loss + loss
  /\ UNCHANGED <<err, fileVars, modelVars, evaluation, epoch, trainOrder, batchPos,
                 loss, report, evaluateDefined, evalVars>>

\* train_loss/len(train_dataloader) and train_f1/len(train_dataloader), as the
\* fractions <<numerator, denominator>>
EpochReport ==
  [epoch |-> epoch + 1, epochs |-> epochs,
   loss |-> <<train_loss, NumBatches(Len(trainOrder))>>,
   f1 |-> <<train_f1, NumBatches(Len(trainOrder))>>]

\* the end of the epoch: "if evaluation" calls evaluate, whose name is bound
\* only when the script has reached its def; otherwise the line is printed
TrainEpochEnd ==
  /\ Running("epoch_end")
  /\ IF evaluation
       THEN IF evaluateDefined
              THEN /\ pc' = "eval_enter"
                   /\ caller' = "train"
                   /\ evalLoader' = "None"
                   /\ UNCHANGED <<err, epoch, report>>
              ELSE /\ err' = "line 47: NameError: evaluate"
                   /\ UNCHANGED <<pc, caller, evalLoader, epoch, report>>
       ELSE /\ report' = EpochReport
            /\ epoch' = epoch + 1
            /\ pc' = "epoch_head"
            /\ UNCHANGED <<err, caller, evalLoader>>
  /\ UNCHANGED <<fileVars, modelVars, evaluation, trainOrder, batchPos, batchSteps,
                 loss, train_loss, train_f1, epochLog, evaluateDefined, evalOrder,
                 evalPos, y_true, y_pred, memo, confusion, paramsAtEntry, runs, prevRun>>

\* return model; the locals of train end with the call
TrainReturn ==
  /\ Running("train_return")
  /\ trainOrder' = <<>>
  /\ batchPos' = 0
  /\ batchSteps' = <<>>
  /\ loss' = 0
  /\ train_loss' = 0
  /\ train_f1' = 0
  /\ epochLog' = <<>>
  /\ report' = NoReport
  /\ pc' = "save"
  /\ UNCHANGED <<err, fileVars, modelVars, evaluation, epoch, evaluateDefined, evalVars>>

\* ---- the script, lines 108-160 ----

\* torch.save(model, "myModel/bilstm_bert.pt")
SaveModel ==
  /\ Running("save")
  /\ pc' = "def_evaluate"
  /\ UNCHANGED <<err, fileVars, modelVars, trainVars, evaluateDefined, evalVars>>

\* def evaluate(model, dataloader): the name is bound from here on
DefEvaluate ==
  /\ Running("def_evaluate")
  /\ evaluateDefined' = TRUE
  /\ pc' = "read_test"
  /\ UNCHANGED <<err, fileVars, modelVars, trainVars, evalVars>>

\* test_texts, test_labels = convert_to_text_label("./myBERT/test.txt")
ReadTest ==
  /\ Running("read_test")
  /\ \E f \in FileContents(TestRaw, MaxTestLines) :
       /\ testFile' = f
       /\ IF Malformed \in Range(f)
            THEN /\ err' = "line 69: malformed line"
                 /\ UNCHANGED <<pc, test_labels>>
            ELSE /\ test_labels' = LabelsOf(f)
                 /\ pc' = "encode_test"
                 /\ err' = err
  /\ UNCHANGED <<trainFile, devFile, train_labels, modelVars, trainVars,
                 evaluateDefined, evalVars>>

\* tokenization and torch.cat of the test texts (fails on an empty list)
EncodeTest ==
  /\ Running("encode_test")
  /\ IF test_labels = <<>>
       THEN err' = "line 147: torch.cat of an empty list" /\ pc' = pc
       ELSE err' = err /\ pc' = "normalize_test"
  /\ UNCHANGED <<fileVars, modelVars, trainVars, evaluateDefined, evalVars>>

\* NormalizeTestLabels with the offset forgotten for the test split
NormalizeTestLabelsOmitted ==
  /\ Running("normalize_test")
  /\ pc' = "call_evaluate"
  /\ UNCHANGED <<err, fileVars, modelVars, trainVars, evaluateDefined, evalVars>>

\* test_labels = [int(ids)-2 for ids in test_labels]
NormalizeTestLabels ==
  /\ Running("normalize_test")
  /\ test_labels' = Normalize(test_labels)
  /\ pc' = "call_evaluate"
  /\ UNCHANGED <<err, trainFile, devFile, testFile, train_labels, modelVars,
                 trainVars, evaluateDefined, evalVars>>

\* test_dataset, test_sampler = RandomSampler(...), test_dataloader, and
\* evaluate(model, test_dataloader)
CallEvaluate ==
  /\ Running("call_evaluate")
  /\ caller' = "main"
  /\ evalLoader' = "test"
  /\ pc' = "eval_enter"
  /\ UNCHANGED <<err, fileVars, modelVars, trainVars, evaluateDefined, evalOrder,
                 evalPos, y_true, y_pred, memo, confusion, paramsAtEntry, runs, prevRun>>

\* ---- evaluate, lines 111-131 ----

\* EvalEnter without model.eval()
EvalEnterNoEvalMode ==
  /\ Running("eval_enter")
  /\ y_true' = <<>>
  /\ y_pred' = <<>>
  /\ evalPos' = 0
  /\ paramsAtEntry' = params
  /\ confusion' = NoMatrix
  /\ IF evalLoader = "None"
       THEN /\ err' = "line 117: TypeError: NoneType is not iterable"
            /\ UNCHANGED <<pc, gradEnabled, evalOrder>>
       ELSE /\ gradEnabled' = FALSE
            /\ \E o \in Perms(Len(test_labels)) : evalOrder' = o
            /\ pc' = "eval_loop"
            /\ err' = err
  /\ UNCHANGED <<fileVars, training, params, grad, trainVars, evaluateDefined, caller,
                 evalLoader, memo, runs, prevRun>>

\* model.eval(), the two lists, torch.no_grad(), and the iterator of the for:
\* the sampler of the loader draws a permutation; None is not iterable
EvalEnter ==
  /\ Running("eval_enter")
  /\ training' = [m \in Modules |-> FALSE]
  /\ y_true' = <<>>
  /\ y_pred' = <<>>
  /\ evalPos' = 0
  /\ paramsAtEntry' = params
  /\ confusion' = NoMatrix
  /\ IF evalLoader = "None"
       THEN /\ err' = "line 117: TypeError: NoneType is not iterable"
            /\ UNCHANGED <<pc, gradEnabled, evalOrder>>
       ELSE /\ gradEnabled' = FALSE
            /\ \E o \in Perms(Len(test_labels)) : evalOrder' = o
            /\ pc' = "eval_loop"
            /\ err' = err
  /\ UNCHANGED <<fileVars, params, grad, trainVars, evaluateDefined, caller,
                 evalLoader, memo, runs, prevRun>>

EvalBatchIdx == BatchAt(evalOrder, evalPos)

\* whether the forward pass is a function of the parameters and the input:
\* dropout is inactive
Deterministic == ~training["bert"] /\ ~training["dropout"]

\* the predictions a forward pass can give for the examples idx: in
\* evaluation mode the one the frozen model gave before, if it gave one
Predictions(idx) ==
  {p \in [1..Len(idx) -> Preds] :
     /\ Deterministic =>
          \A i \in 1..Len(idx) : idx[i] \in DOMAIN memo => p[i] = memo[idx[i]]
     /\ Deterministic =>
          \A i, j \in 1..Len(idx) : idx[i] = idx[j] => p[i] = p[j]}

Remember(idx, p) ==
  IF Deterministic
    THEN [e \in DOMAIN memo \cup Range(idx) |->
            IF e \in DOMAIN memo THEN memo[e]
            ELSE p[CHOOSE i \in 1..Len(idx) : idx[i] = e]]
    ELSE memo

\* one iteration of the for: forward pass, torch.max, and the two extends
EvalBatch ==
  /\ Running("eval_loop")
  /\ evalPos < NumBatches(Len(evalOrder))
  /\ \E p \in Predictions(EvalBatchIdx) :
       /\ y_pred' = y_pred \o p
       /\ memo' = Remember(EvalBatchIdx, p)
  /\ y_true' = y_true \o [i \in 1..Len(EvalBatchIdx) |-> test_labels[EvalBatchIdx[i]]]
  /\ evalPos' = evalPos + 1
  /\ UNCHANGED <<pc, err, fileVars, modelVars, trainVars, evaluateDefined, caller,
                 evalLoader, evalOrder, confusion, paramsAtEntry, runs, prevRun>>

\* the loader is exhausted: the with block ends and gradients are on again
EvalLoopExit ==
  /\ Running("eval_loop")
  /\ evalPos = NumBatches(Len(evalOrder))
  /\ gradEnabled' = TRUE
  /\ pc' = "eval_report"
  /\ UNCHANGED <<err, fileVars, training, params, grad, trainVars, evaluateDefined,
                 evalVars>>

\* classification_report(y_true, y_pred, target_names=...) and
\* confusion_matrix(y_true, y_pred). Without labels= the report works on the
\* labels that occur; when they are not as many as the names, scikit-learn
\* from 0.20 raises ValueError and older releases warn and go on.
EvalReport ==
  /\ Running("eval_report")
  /\ \/ /\ confusion' = ConfusionMatrix(y_true, y_pred)
        /\ pc' = "eval_return"
        /\ err' = err
     \/ /\ Cardinality(Range(y_true) \cup Range(y_pred)) # NumLabels
        /\ err' = "line 129: ValueError: number of classes does not match target_names"
        /\ UNCHANGED <<pc, confusion>>
  /\ UNCHANGED <<fileVars, modelVars, trainVars, evaluateDefined, caller, evalLoader,
                 evalOrder, evalPos, y_true, y_pred, memo, paramsAtEntry, runs, prevRun>>

\* the function ends without a return statement: the caller receives None.
\* train unpacks it into val_loss, val_f1
EvalReturn ==
  /\ Running("eval_return")
  /\ IF caller = "train"
       THEN /\ err' = "line 47: TypeError: cannot unpack NoneType"
            /\ UNCHANGED <<pc, runs, prevRun>>
       ELSE /\ runs' = runs + 1
            /\ prevRun' = [y_true |-> y_true, y_pred |-> y_pred, confusion |-> confusion]
            /\ pc' = "after_evaluate"
            /\ err' = err
  /\ UNCHANGED <<fileVars, modelVars, trainVars, evaluateDefined, caller, evalLoader,
                 evalOrder, evalPos, y_true, y_pred, memo, confusion, paramsAtEntry>>

\* evaluate(model, test_dataloader) a second time, on the same model and loader
EvaluateAgain ==
  /\ Running("after_evaluate")
  /\ runs = 1
  /\ pc' = "eval_enter"
  /\ UNCHANGED <<err, fileVars, modelVars, trainVars, evaluateDefined, evalVars>>

Next ==
  \/ ReadTrain \/ ReadDev \/ NormalizeTrainLabels \/ EncodeTrain \/ ConstructModel
  \/ CallTrain \/ TrainEpochHead \/ TrainFetch \/ TrainToDevice \/ TrainZeroGrad
  \/ TrainForward \/ TrainLoss \/ TrainBackward \/ TrainStep \/ TrainRecord
  \/ TrainEpochEnd \/ TrainReturn
  \/ SaveModel \/ DefEvaluate \/ ReadTest \/ EncodeTest \/ NormalizeTestLabels
  \/ CallEvaluate \/ EvalEnter \/ EvalBatch \/ EvalLoopExit \/ EvalReport
  \/ EvalReturn \/ EvaluateAgain

Spec == Init /\ [][Next]_vars

\* ---- properties ----

NumTrainBatches == NumBatches(Len(train_labels))

BodyPcs == {"to_device", "zero_grad", "forward", "loss", "backward", "step", "record"}
EpochPcs == BodyPcs \cup {"fetch", "epoch_end"}
BeforeTrainPcs == {"read_train", "read_dev", "normalize_train", "encode_train",
                   "construct_model", "call_train"}
AfterTrainPcs == {"train_return", "save", "def_evaluate", "read_test", "encode_test",
                  "normalize_test", "call_evaluate"}
EvalPcs == {"eval_enter", "eval_loop", "eval_report", "eval_return"}

RECURSIVE SeqSum(_)
SeqSum(s) == IF Len(s) = 0 THEN 0 ELSE Head(s) + SeqSum(Tail(s))

RECURSIVE SumOver(_, _)
SumOver(m, D) ==
  IF D = {} THEN 0
  ELSE LET d == CHOOSE x \in D : TRUE IN m[d] + SumOver(m, D \ {d})

Classes == 0..(NumLabels - 1)

\* number of batches of this epoch whose optimizer step has been applied
StepsThisEpoch ==
  IF batchPos = 0 THEN 0
  ELSE IF "step" \in Range(batchSteps) THEN batchPos ELSE batchPos - 1

\* C1: the number of parameter updates never exceeds epochs x number of
\* batches; it is exactly one per training batch per epoch (epoch x N plus the
\* batches stepped in the running epoch), nothing before train, and nothing
\* is added at the end of an epoch, after train or inside evaluate.
C1_UpdateCount ==
  /\ params <= epochs * NumTrainBatches
  /\ pc \in BeforeTrainPcs => params = 0
  /\ pc = "epoch_head" => params = epoch * NumTrainBatches
  /\ pc \in EpochPcs => params = epoch * NumTrainBatches + StepsThisEpoch
  /\ (pc \in AfterTrainPcs \/ pc = "after_evaluate" \/ (pc \in EvalPcs /\ caller = "main"))
       => params = epochs * NumTrainBatches

C1_Witness ==
  pc = "after_evaluate" /\ NumTrainBatches = 2 /\ params = epochs * 2

\* C2: the steps done for a batch are a prefix of to_device, zero_grad,
\* forward, loss, backward, step, record; the next batch is fetched only when
\* all seven are done; .grad is empty when backward starts and holds the
\* gradient of the current batch alone when the optimizer steps.
C2_BatchSequence ==
  /\ IsPrefix(batchSteps, StepOrder)
  /\ pc \in BodyPcs => Len(batchSteps) < Len(StepOrder) /\ StepOrder[Len(batchSteps) + 1] = pc
  /\ (pc \in {"fetch", "epoch_end"} /\ batchPos > 0) => batchSteps = StepOrder
  /\ pc = "backward" => grad = {}
  /\ pc = "step" => grad = {<<epoch, batchPos>>}

C2_Witness ==
  pc = "step" /\ err = "none" /\ batchPos = 2 /\ epoch = 1

\* C3: when the loop of the final evaluate has ended, every test example has
\* been fed exactly once and in the order of the test dataset.
C3_DatasetOrder ==
  (pc = "eval_report" /\ caller = "main")
    => /\ Len(y_true) = Len(test_labels)
       /\ evalOrder = [i \in 1..Len(test_labels) |-> i]

\* C4: with evaluation=True the end of an epoch raises no error: neither the
\* call of evaluate, nor evaluate itself, nor taking its result as a pair.
C4_ValidationCompletes ==
  evaluation => /\ ~(pc = "epoch_end" /\ err # "none")
                /\ ~(caller = "train" /\ err # "none")

FinalEvaluateOver ==
  /\ caller = "main"
  /\ \/ pc \in {"eval_return", "after_evaluate"}
     \/ pc = "eval_report" /\ err # "none"

RowSum(m, t) == SumOver(m, {c \in DOMAIN m : c[1] = t})

Support(yt, t) == Cardinality({i \in 1..Len(yt) : yt[i] = t})

\* C5: once the final evaluate is over, its confusion matrix is the 10 x 10
\* matrix over the classes 0..9, its entries sum to the number of test
\* examples and each row sums to the support of its class.
C5_FullMatrix ==
  FinalEvaluateOver
    => /\ DOMAIN confusion = Classes \X Classes
       /\ SumOver(confusion, DOMAIN confusion) = Len(test_labels)
       /\ \A t \in Classes : RowSum(confusion, t) = Support(y_true, t)

\* C6: a second evaluate over the same model and loader gives the same
\* sequence of predictions, paired with the same true labels, and the same
\* confusion matrix as the first.
C6_SameTwice ==
  (caller = "main" /\ runs = 1)
    => /\ pc \in {"eval_report", "eval_return"}
            => y_pred = prevRun.y_pred /\ y_true = prevRun.y_true
       /\ pc = "eval_return" => confusion = prevRun.confusion

\* C7: while evaluate loops over its batches every module is in evaluation
\* mode and gradients are off, and from the first batch until after the
\* return the parameters are those evaluate was entered with.
C7_EvaluateFrame ==
  /\ pc = "eval_loop" => /\ \A m \in Modules : ~training[m]
                         /\ ~gradEnabled
  /\ pc \in {"eval_loop", "eval_report", "eval_return", "after_evaluate"}
       => params = paramsAtEntry

C7_Witness ==
  pc = "after_evaluate" /\ runs = 2 /\ Len(y_true) = 2 /\ params > 0

\* C8: during an epoch the accumulators hold the sums over the batches
\* recorded in that epoch alone; the line of the epoch is printed only when
\* every batch of the stream has been recorded, and its two training values
\* are those sums over the number of batches.
C8_Accumulator ==
  /\ pc \in EpochPcs =>
       /\ \A i \in 1..Len(epochLog) : epochLog[i].epoch = epoch
       /\ Len(epochLog) = (IF "record" \in Range(batchSteps) THEN batchPos
                           ELSE IF batchPos = 0 THEN 0 ELSE batchPos - 1)
       /\ train_loss = SeqSum([i \in 1..Len(epochLog) |-> epochLog[i].loss])
       /\ train_f1 = SeqSum([i \in 1..Len(epochLog) |-> epochLog[i].f1])
  /\ report # NoReport =>
       /\ Len(epochLog) = NumTrainBatches
       /\ \A i \in 1..Len(epochLog) : epochLog[i].epoch + 1 = report.epoch
       /\ report.loss = <<SeqSum([i \in 1..Len(epochLog) |-> epochLog[i].loss]),
                          NumTrainBatches>>
       /\ report.f1 = <<SeqSum([i \in 1..Len(epochLog) |-> epochLog[i].f1]),
                        NumTrainBatches>>

C8_Witness ==
  /\ report # NoReport
  /\ report.epoch = 2
  /\ NumTrainBatches = 2
  /\ report.loss[1] = 3

TrainNormalized == pc \notin {"read_train", "read_dev", "normalize_train"}
TestNormalized == pc \in {"call_evaluate", "after_evaluate"} \/ (pc \in EvalPcs /\ caller = "main")

RawClasses == LabelOffset..(LabelOffset + NumLabels - 1)

\* C9 as stated: every label that reaches the loss or the report lies in
\* 0..9.
C9_AllInRange ==
  /\ pc = "loss" => \A i \in 1..Len(CurBatch) : train_labels[CurBatch[i]] \in Classes
  /\ (pc = "eval_report" /\ caller = "main") => \A i \in 1..Len(y_true) : y_true[i] \in Classes

\* C9 amended: once normalized, the labels of train+dev and of test are the
\* raw labels of the files minus 2, line by line (so raw = label + 2, and
\* the offset was applied once), and a label lies in 0..9 exactly when its
\* raw value lies in 2..11.
C9_Normalized ==
  /\ TrainNormalized =>
       LET raw == LabelsOf(trainFile) \o LabelsOf(devFile)
       IN /\ Len(train_labels) = Len(raw)
          /\ \A i \in 1..Len(raw) :
               /\ raw[i] = train_labels[i] + LabelOffset
               /\ train_labels[i] \in Classes <=> raw[i] \in RawClasses
  /\ TestNormalized =>
       LET raw == LabelsOf(testFile)
       IN /\ Len(test_labels) = Len(raw)
          /\ \A i \in 1..Len(raw) :
               /\ raw[i] = test_labels[i] + LabelOffset
               /\ test_labels[i] \in Classes <=> raw[i] \in RawClasses
          /\ pc \in {"eval_report", "eval_return", "after_evaluate"} =>
               \A i \in 1..Len(y_true) : y_true[i] = raw[evalOrder[i]] - LabelOffset

C9_Witness ==
  /\ pc = "eval_report"
  /\ caller = "main"
  /\ Len(trainFile) = 1 /\ Len(devFile) = 1
  /\ y_true = <<0, -1>>

\* C10: every step of the body of a training batch runs with all modules of
\* the classifier in training mode.
C10_TrainingMode ==
  pc \in BodyPcs => \A m \in Modules : training[m]

C10_Witness ==
  pc = "forward" /\ epoch = 1 /\ batchPos = 2 /\ \A m \in Modules : training[m]

====
